---------------------------- MODULE Spec2Model ----------------------------
(***************************************************************************)
(* Model of the upload-session and delivery orchestration code of the      *)
(* zeropacking server:                                                     *)
(*   - src/src/routes/video.js, second module (cloudinary.js): the chunk   *)
(*     reassembly sessions kept in the in-memory Map uploadSessions;       *)
(*   - src/src/routes/upload.js: the S3 presigned-url and multipart       *)
(*     upload routes;                                                      *)
(*   - src/src/routes/video.js, first module: the playback routes /url    *)
(*     and /stream.                                                        *)
(*                                                                         *)
(* Spec          : the chunk reassembly session manager.                   *)
(* SpecMultipart : the multipart routes against the object store.          *)
(* SpecTenants   : the same routes called by workers of two companies.     *)
(* SpecIssue     : key derivation and credential issuance, with the clock. *)
(* SpecStream    : the playback routes against the registry and the store. *)
(* SpecStart     : the session manager with repeated start-upload requests.*)
(* SpecPublicUrl : presigned-url for every barcode, for the public URL.    *)
(*                                                                         *)
(* Time is a discrete clock.  One clock unit stands for 30 minutes, so      *)
(* the 30 * 60 * 1000 ms of the expiry timer are SESSION_TTL = 1 unit.     *)
(* A timer callback runs in the timers phase of the event loop iteration   *)
(* in which it falls due: request handlers of the same instant may run     *)
(* before or after it, but the clock does not move on past a due timer.    *)
(***************************************************************************)
EXTENDS Integers, Sequences, FiniteSets, Bags, TLC

\* ------------------------------------------------------------------ bounds
MaxTime    == 2   \* the clock runs over 0..MaxTime
MaxChunks  == 2   \* totalChunks of a session is in 1..MaxChunks
MaxSubmits == 2   \* chunks accepted by upload-chunk, over all sessions
MaxInflight == 2  \* upload-chunk handlers suspended in uploadToCloudinary
MaxUploads == 1   \* multipart uploads initiated
MaxPartNumber == 2 \* part numbers are in 1..MaxPartNumber
MaxParts   == 2   \* length of the parts list of a completion request
MaxSize    == 3   \* the stored object has 1..MaxSize bytes
MaxDerived == 2   \* object keys derived by presigned-url and multipart/init

\* --------------------------------------------------------------- constants
SESSION_TTL == 1  \* setTimeout(..., 30 * 60 * 1000), in clock units of 30 min

Undefined == "undefined"   \* JS undefined: an array hole, a missing field
NoFile    == "nofile"      \* the request carried no file part: req.file is undefined
Buffers   == {"a", "b"}    \* contents of req.file.buffer
\* req.file.buffer.length: "a" is a chunk of one byte, "b" a chunk of more
\* bytes than any session declares
ByteLength(buf) == IF buf = "a" THEN 1 ELSE MaxChunks + 1
\* req.body.fileSize of start-upload: the client declares one byte per chunk
DeclaredSize(totalChunks) == totalChunks

\* req.user as set by authenticateToken
Users == { [worker_id |-> "w1", company_id |-> "c1"] }
\* the callers authenticateToken lets through: the worker above and a worker
\* of another company
Callers == Users \cup { [worker_id |-> "w2", company_id |-> "c2"] }
RecordingIds == {"r1"}

\* `${req.user.worker_id}_${recordingId}_${Date.now()}`
SessionId(workerId, recordingId, t) == <<workerId, recordingId, t>>


\* chunkIndex values a client may send: -1 stands for any key that is not an
\* array index (a negative or non-canonical number), MaxChunks is past the end
\* of every session.
ChunkIndexes == -1..MaxChunks
\* totalChunks values a client may send with a chunk
ReqTotals == 0..MaxChunks
\* the upload-chunk request bodies: with a file part, and one without
ChunkRequests ==
    [chunkIndex : ChunkIndexes, file : Buffers, totalChunks : ReqTotals]
    \cup {[chunkIndex |-> 0, file |-> NoFile, totalChunks |-> 1]}

VARIABLES
    now,             \* Date.now(), in clock units
    uploadSessions,  \* the Map uploadSessions: session id -> session object
    timers,          \* pending setTimeout callbacks: [sid, due]
    inflight,        \* upload-chunk handlers awaiting uploadToCloudinary
    cloudinary,      \* blobs the store has accepted
    resp,            \* the last response sent
    issued,          \* the session ids start-upload has returned (history)
    nSubmits,        \* chunks accepted by upload-chunk so far (history)
    ghost,           \* per live session: what the client has sent (history)
    s3Uploads,       \* the object store: upload id -> multipart upload
    s3Calls,         \* the commands the last multipart request sent to the store
    mresp,           \* the last multipart request and its response
    derived,         \* the object keys derived so far, each with its inputs (history)
    s3Object,        \* the stored object of the recording: NoObject or its size
    sresp            \* the last streaming request, the store commands it sent, its response

\* the state of the session manager and of the multipart routes
svars == <<uploadSessions, timers, inflight, cloudinary, resp, issued, nSubmits, ghost>>
mvars == <<s3Uploads, s3Calls, mresp, derived>>
pvars == <<s3Object, sresp>>
vars == <<now, svars, mvars, pvars>>

\* ---------------------------------------------------------------- helpers
Max(a, b) == IF a >= b THEN a ELSE b

\* A JS array is a sequence whose element i+1 is array index i; a hole is
\* Undefined.  props holds the value stored under the non-index key.
EmptyChunks == [arr |-> <<>>, props |-> Undefined]

\* session.chunks.push(buf): arrival order instead of index order
ChunkPush(chunks, chunkIndex, buf) ==
    [chunks EXCEPT !.arr = Append(@, buf)]

\* session.chunks = a new array holding only the chunk just received
ChunkAssignFresh(chunks, chunkIndex, buf) ==
    IF chunkIndex < 0
    THEN [chunks EXCEPT !.props = buf]
    ELSE [chunks EXCEPT !.arr = [i \in 1..(chunkIndex + 1) |->
                                    IF i = chunkIndex + 1 THEN buf ELSE Undefined]]

\* session.chunks[chunkIndex] = req.file.buffer
ChunkAssign(chunks, chunkIndex, buf) ==
    IF chunkIndex < 0
    THEN [chunks EXCEPT !.props = buf]
    ELSE [chunks EXCEPT !.arr =
            [i \in 1..Max(Len(@), chunkIndex + 1) |->
                IF i = chunkIndex + 1 THEN buf
                ELSE IF i <= Len(@) THEN @[i] ELSE Undefined]]

\* session.chunks.length: counts the holes too
UploadedChunksLength(chunks) == Len(chunks.arr)

\* session.chunks.filter(chunk => chunk !== undefined).length
UploadedChunks(chunks) ==
    Cardinality({i \in 1..Len(chunks.arr) : chunks.arr[i] # Undefined})

\* Buffer.concat(session.chunks) throws a TypeError on a hole
ConcatThrows(chunks) == \E i \in 1..Len(chunks.arr) : chunks.arr[i] = Undefined
\* Buffer.concat(session.chunks): the buffers in array index order
BufferConcat(chunks) == chunks.arr

\* the response record
Response(op, status, sid, msg, uploaded) ==
    [op |-> op, status |-> status, sid |-> sid, msg |-> msg,
     uploadedChunks |-> uploaded]

\* a session id no start-upload has returned
NoSid == <<"", "", -1>>
\* the session ids a client may send: those it was given, and an unknown one
SessionIds(given) == given \cup {NoSid}
NoResp == Response("none", 0, NoSid, "", -1)

\* what the client has sent to a session: the chunkIndex of every accepted
\* submission in arrival order, and the last buffer sent per chunkIndex
NewGhost == [order |-> <<>>, last |-> [i \in ChunkIndexes |-> Undefined]]

\* ------------------------------------------------ upload.js: requests
\* req.worker as set by authenticateWorker: a worker of each of two companies
Workers == { [worker_id |-> "w1", company_id |-> "c1"],
             [worker_id |-> "w2", company_id |-> "c2"] }
\* the workers of the first company
WorkersOf(company_id) == {w \in Workers : w.company_id = company_id}
Barcodes == {<<"b1">>}
\* barcodes as scanned: they may hold the separators of the key, and one ends
\* like the file name of a key ("_" and a timestamp)
ScannedBarcodes ==
    Barcodes \cup {<<"b1", "_", "5", "2", "5", "9", "3", "5">>, <<"2000", "/", "b1">>}
\* a barcode that holds the host suffix of a store URL
HostBarcodes == {<<"b1", ".amazonaws.com/", "b1">>}
\* a falsy request field (undefined, "", 0)
NoString   == ""
NoBarcode  == <<>>
MissingKey == <<>>
MissingId  == 0

\* the response of a multipart route, with the request it answers
MResponse(op, status, req, msg) == [op |-> op, status |-> status, req |-> req, msg |-> msg]
NoMResponse == MResponse("none", 0, [key |-> MissingKey, uploadId |-> MissingId], "")

\* no object stored under the recording's key
NoObject == [size |-> -1]
\* no streaming request served yet
NoSResponse == [op |-> "none"]

Init ==
    /\ s3Object = NoObject
    /\ sresp = NoSResponse
    /\ s3Uploads = <<>>
    /\ s3Calls = <<>>
    /\ mresp = NoMResponse
    /\ derived = <<>>
    /\ now = 0
    /\ uploadSessions = <<>>
    /\ timers = {}
    /\ inflight = <<>>
    /\ cloudinary = {}
    /\ resp = NoResp
    /\ issued = {}
    /\ nSubmits = 0
    /\ ghost = <<>>

\* Map.prototype.set / delete on a function
MapSet(m, k, v) == [x \in DOMAIN m \cup {k} |-> IF x = k THEN v ELSE m[x]]
MapDelete(m, k) == [x \in DOMAIN m \ {k} |-> m[x]]

\* ------------------------------------------------- POST /start-upload
\* no session has been started for the recording
FirstStart(recordingId) == \A s \in issued : s[2] # recordingId

StartUpload(user, recordingId, totalChunks) ==
    /\ LET sessionId == SessionId(user.worker_id, recordingId, now) IN
       /\ uploadSessions' = MapSet(uploadSessions, sessionId,
             [totalChunks |-> totalChunks,
              fileSize    |-> DeclaredSize(totalChunks),
              chunks      |-> EmptyChunks,
              recordingId |-> recordingId,
              workerId    |-> user.worker_id,
              companyId   |-> user.company_id,
              createdAt   |-> now])
       /\ timers' = timers \cup {[sid |-> sessionId, due |-> now + SESSION_TTL]}
       /\ ghost' = MapSet(ghost, sessionId, NewGhost)
       /\ resp' = Response("start-upload", 200, sessionId, "Upload session started", -1)
       /\ issued' = issued \cup {sessionId}
    /\ UNCHANGED <<now, inflight, cloudinary, nSubmits, mvars, pvars>>

\* a callback that deletes nothing
KeepSession(sessions, sessionId) == sessions

\* the setTimeout callback of start-upload
ExpireSession(sessions, sessionId) ==
    IF sessionId \in DOMAIN sessions THEN MapDelete(sessions, sessionId) ELSE sessions

SessionTimeout(t) ==
    /\ t \in timers
    /\ now >= t.due
    /\ timers' = timers \ {t}
    /\ uploadSessions' = ExpireSession(uploadSessions, t.sid)
    /\ ghost' = [x \in DOMAIN uploadSessions' |-> ghost[x]]
    /\ UNCHANGED <<now, inflight, cloudinary, resp, issued, nSubmits, mvars, pvars>>

\* an upload-chunk that pushes the expiry of its session back
ChunkTimersRearm(pending, sessionId, t) ==
    {x \in pending : x.sid # sessionId} \cup {[sid |-> sessionId, due |-> t + SESSION_TTL]}

\* upload-chunk sets, clears or re-arms no timer: the pending timers after it
ChunkTimers(pending, sessionId, t) == pending

\* ------------------------------------------------- POST /upload-chunk
\* The handler up to its first await.  file is req.file's buffer (NoFile when
\* the request has no file part), totalChunks is the request's own field.
UploadChunk(sessionId, chunkIndex, file, totalChunks) ==
    IF sessionId \notin DOMAIN uploadSessions
    THEN /\ resp' = Response("upload-chunk", 400, sessionId, "Invalid or expired session", -1)
         /\ UNCHANGED <<now, uploadSessions, timers, inflight, cloudinary, issued, nSubmits, ghost, mvars, pvars>>
    ELSE IF file = NoFile
    THEN \* req.file.buffer throws before the assignment
         /\ resp' = Response("upload-chunk", 500, sessionId, "TypeError", -1)
         /\ UNCHANGED <<now, uploadSessions, timers, inflight, cloudinary, issued, nSubmits, ghost, mvars, pvars>>
    ELSE LET session == uploadSessions[sessionId]
             chunks == ChunkAssign(session.chunks, chunkIndex, file)
             uploadedChunks == UploadedChunks(chunks)
             final == uploadedChunks = totalChunks
         IN
         /\ nSubmits < MaxSubmits
         /\ nSubmits' = nSubmits + 1
         /\ uploadSessions' = [uploadSessions EXCEPT ![sessionId].chunks = chunks]
         /\ ghost' = [ghost EXCEPT ![sessionId].order = Append(@, chunkIndex),
                                   ![sessionId].last[chunkIndex] = file]
         /\ timers' = ChunkTimers(timers, sessionId, now)
         /\ IF final /\ ~ConcatThrows(chunks)
            THEN \* await uploadToCloudinary(completeBuffer, ...): no response yet
                 /\ Len(inflight) < MaxInflight
                 /\ inflight' = Append(inflight,
                        [sid         |-> sessionId,
                         buffer      |-> BufferConcat(chunks),
                         recordingId |-> session.recordingId,
                         companyId   |-> session.companyId])
                 /\ resp' = resp
            ELSE /\ inflight' = inflight
                 /\ resp' = IF final
                            THEN Response("upload-chunk", 500, sessionId, "TypeError", uploadedChunks)
                            ELSE Response("upload-chunk", 200, sessionId, "progress", uploadedChunks)
         /\ UNCHANGED <<now, cloudinary, issued, mvars, pvars>>

\* a catch block that also drops the session whose final write failed
CatchDropsSession(sessions, sessionId) ==
    IF sessionId \in DOMAIN sessions THEN MapDelete(sessions, sessionId) ELSE sessions

\* the catch block of upload-chunk logs and answers 500: the session table
\* after it (uploadSessions.delete is skipped by the throw)
CatchSessions(sessions, sessionId) == sessions

RemoveAt(s, i) == [j \in 1..(Len(s) - 1) |-> IF j < i THEN s[j] ELSE s[j + 1]]

\* The handler after the await: uploadToCloudinary resolved (ok) or rejected.
UploadChunkResume(i, ok) ==
    /\ i \in 1..Len(inflight)
    /\ LET f == inflight[i] IN
       /\ inflight' = RemoveAt(inflight, i)
       /\ IF ok
          THEN /\ cloudinary' = cloudinary \cup
                     {[companyId |-> f.companyId, recordingId |-> f.recordingId, buffer |-> f.buffer]}
               /\ uploadSessions' = MapDelete(uploadSessions, f.sid)
               /\ ghost' = [x \in DOMAIN uploadSessions' |-> ghost[x]]
               /\ resp' = Response("upload-chunk", 200, f.sid, "Upload completed successfully", -1)
          ELSE /\ resp' = Response("upload-chunk", 500, f.sid, "upload failed", -1)
               /\ uploadSessions' = CatchSessions(uploadSessions, f.sid)
               /\ ghost' = [x \in DOMAIN uploadSessions' |-> ghost[x]]
               /\ UNCHANGED cloudinary
    /\ UNCHANGED <<now, timers, issued, nSubmits, mvars, pvars>>

\* ------------------------------------------------- GET /upload-status/:sessionId
UploadStatus(sessionId) ==
    /\ resp' = IF sessionId \in DOMAIN uploadSessions
               THEN Response("upload-status", 200, sessionId, "progress",
                             UploadedChunks(uploadSessions[sessionId].chunks))
               ELSE Response("upload-status", 404, sessionId, "Session not found", -1)
    /\ UNCHANGED <<now, uploadSessions, timers, inflight, cloudinary, issued, nSubmits, ghost, mvars, pvars>>

\* ------------------------------------------------- DELETE /cancel-upload/:sessionId
\* a cancel that empties the table when it does not find its session
CancelClearsOnMiss(sessions, sessionId) ==
    IF sessionId \in DOMAIN sessions THEN MapDelete(sessions, sessionId) ELSE <<>>

\* if (uploadSessions.has(sessionId)) uploadSessions.delete(sessionId): the
\* session table after the handler
CancelSessions(sessions, sessionId) ==
    IF sessionId \in DOMAIN sessions THEN MapDelete(sessions, sessionId) ELSE sessions

CancelUpload(sessionId) ==
    /\ uploadSessions' = CancelSessions(uploadSessions, sessionId)
    /\ ghost' = [x \in DOMAIN uploadSessions' |-> ghost[x]]
    /\ resp' = IF sessionId \in DOMAIN uploadSessions
               THEN Response("cancel-upload", 200, sessionId, "Upload cancelled", -1)
               ELSE Response("cancel-upload", 404, sessionId, "Session not found", -1)
    /\ UNCHANGED <<now, timers, inflight, cloudinary, issued, nSubmits, mvars, pvars>>

\* ------------------------------------------------- requests with their caller
\* authenticateToken sets req.user from the token; the handlers of
\* upload-chunk, upload-status and cancel-upload do not read it
UploadChunkBy(user, sessionId, chunkIndex, file, totalChunks) ==
    UploadChunk(sessionId, chunkIndex, file, totalChunks)
UploadStatusBy(user, sessionId) == UploadStatus(sessionId)
CancelUploadBy(user, sessionId) == CancelUpload(sessionId)

\* the upload-chunk requests sent with a session id: every request body for a
\* session in the table; one body for an id that is not in it, since the
\* handler returns before it reads another field
ChunkRequestsFor(sessionId) ==
    IF sessionId \in DOMAIN uploadSessions
    THEN ChunkRequests
    ELSE {[chunkIndex |-> 0, file |-> "a", totalChunks |-> 1]}

Tick ==
    /\ now < MaxTime
    /\ \A t \in timers : t.due > now
    /\ now' = now + 1
    /\ UNCHANGED <<svars, mvars, pvars>>

Next ==
    \* the client of a recording starts one upload session for it
    \/ \E u \in Users, r \in RecordingIds, n \in 1..MaxChunks :
          FirstStart(r) /\ StartUpload(u, r, n)
    \/ \E sid \in SessionIds(issued) : \E r \in ChunkRequestsFor(sid) :
          UploadChunk(sid, r.chunkIndex, r.file, r.totalChunks)
    \/ \E i \in 1..MaxInflight, ok \in BOOLEAN : UploadChunkResume(i, ok)
    \/ \E u \in Callers, sid \in SessionIds(issued) : UploadStatusBy(u, sid)
    \/ \E u \in Callers, sid \in SessionIds(issued) : CancelUploadBy(u, sid)
    \/ \E t \in timers : SessionTimeout(t)
    \/ Tick

Spec == Init /\ [][Next]_vars

\* The session routes with a client that starts sessions for a recording
\* again and again.  Two start-upload requests served at the same clock
\* reading read the same Date.now().  Their two timers are due at the same
\* instant and are one element of timers: the callback that runs second
\* finds no session to delete.
NextStart ==
    \/ \E u \in Users, r \in RecordingIds, n \in 1..MaxChunks : StartUpload(u, r, n)
    \/ \E sid \in SessionIds(issued) : \E r \in ChunkRequestsFor(sid) :
          UploadChunk(sid, r.chunkIndex, r.file, r.totalChunks)
    \/ \E i \in 1..MaxInflight, ok \in BOOLEAN : UploadChunkResume(i, ok)
    \/ \E t \in timers : SessionTimeout(t)
    \/ Tick

SpecStart == Init /\ [][NextStart]_vars

\* ======================================================================
\* Properties of the chunk reassembly session manager (Spec)
\* ======================================================================
CreatedAt(sessionId) == sessionId[3]
Deadline(sessionId) == CreatedAt(sessionId) + SESSION_TTL
Live == DOMAIN uploadSessions
\* the array indices the client has submitted to a live session
Submitted(sessionId) == {i \in 0..MaxChunks : ghost[sessionId].last[i] # Undefined}
SubmittedAfter(sessionId) == {i \in 0..MaxChunks : ghost'[sessionId].last[i] # Undefined}

\* C1: whenever upload-chunk hands a blob to the final store write of a session
\* with totalChunks = N to which exactly the indices 0..N-1 have been submitted
\* (in any arrival order, resubmissions included), the blob is the last buffer
\* submitted for index 0, then that for index 1, ... then that for index N-1.
C1_ReassemblyInIndexOrder ==
    [][Len(inflight') > Len(inflight) =>
         LET f == inflight'[Len(inflight')]
             N == uploadSessions'[f.sid].totalChunks
         IN  SubmittedAfter(f.sid) = 0..(N - 1) =>
                 f.buffer = [i \in 1..N |-> ghost'[f.sid].last[i - 1]]]_vars

\* a final store write is in flight for a two-chunk session whose chunk 1
\* arrived before its chunk 0, with different contents
C1_Witness ==
    \E i \in 1..Len(inflight) :
        LET f == inflight[i] IN
        /\ f.sid \in Live
        /\ uploadSessions[f.sid].totalChunks = 2
        /\ ghost[f.sid].order = <<1, 0>>
        /\ f.buffer = <<"a", "b">>

\* C2: after every accepted upload-chunk the session holds, for every array
\* index submitted so far, exactly the last buffer submitted for it, its number
\* of filled entries is the number of distinct indices submitted, and a progress
\* response reports that number (not the number of submissions).
C2_DuplicateOverwrites ==
    [][\A s \in DOMAIN uploadSessions' :
         LET arr == uploadSessions'[s].chunks.arr IN
         /\ \A i \in SubmittedAfter(s) : i + 1 <= Len(arr) /\ arr[i + 1] = ghost'[s].last[i]
         /\ Cardinality({i \in 1..Len(arr) : arr[i] # Undefined}) = Cardinality(SubmittedAfter(s))
         /\ (resp' # resp /\ resp'.op = "upload-chunk" /\ resp'.msg = "progress" /\ resp'.sid = s)
               => resp'.uploadedChunks = Cardinality(SubmittedAfter(s))]_vars

\* index 0 was submitted twice with different contents: one entry, the second
\* buffer, and a reported count of 1 after 2 submissions
C2_Witness ==
    \E s \in Live :
        /\ ghost[s].order = <<0, 0>>
        /\ uploadSessions[s].chunks.arr = <<"b">>
        /\ resp = Response("upload-chunk", 200, s, "progress", 1)

\* C3: once the clock is past a session's start + 30 minutes the session is not
\* in the session table, and every upload-chunk for its id is answered 400
\* 'Invalid or expired session' and changes no session.
C3_ExpiredSessionRejected ==
    [][\A s \in issued : now > Deadline(s) =>
         /\ s \notin Live
         /\ \A r \in ChunkRequests :
               UploadChunk(s, r.chunkIndex, r.file, r.totalChunks) =>
                   /\ resp' = Response("upload-chunk", 400, s, "Invalid or expired session", -1)
                   /\ uploadSessions' = uploadSessions]_vars

\* a session that received a chunk and never completed is past its deadline,
\* and the last response is the rejection of a chunk sent to it
C3_Witness ==
    \E s \in issued :
        /\ now > Deadline(s)
        /\ nSubmits >= 1 /\ cloudinary = {} /\ inflight = <<>>
        /\ resp = Response("upload-chunk", 400, s, "Invalid or expired session", -1)

\* C4: the expiry of a session is fixed when it is created: every pending timer
\* is due at its session's start + 30 minutes whatever requests were served
\* since, a session in the table still has that timer pending, and no session
\* is in the table after its start + 30 minutes.
C4_DeadlineFixed ==
    /\ \A t \in timers : t.due = Deadline(t.sid)
    /\ \A s \in Live :
          /\ [sid |-> s, due |-> Deadline(s)] \in timers
          /\ now <= Deadline(s)

\* a session that got a chunk at its deadline instant was still removed by its
\* timer in that instant
C4_Witness ==
    \E s \in issued :
        /\ now = Deadline(s)
        /\ s \notin Live
        /\ timers = {}
        /\ resp = Response("upload-chunk", 200, s, "progress", 1)

\* C10 (as claimed): an upload-chunk whose chunkIndex is outside
\* 0 <= chunkIndex < totalChunks of its session is rejected and leaves the
\* session table as it was.
C10_OutOfRangeRejected ==
    [][\A s \in Live, r \in ChunkRequests :
         (/\ r.file # NoFile
          /\ ~(0 <= r.chunkIndex /\ r.chunkIndex < uploadSessions[s].totalChunks)
          /\ UploadChunk(s, r.chunkIndex, r.file, r.totalChunks))
         => (resp'.op = "upload-chunk" /\ resp'.status >= 400 /\ uploadSessions' = uploadSessions)]_vars

\* the number of filled entries of a session's chunks array
Filled(sessions, s) ==
    Cardinality({i \in 1..Len(sessions[s].chunks.arr) : sessions[s].chunks.arr[i] # Undefined})

\* C11 (as claimed): no session ever holds more filled chunk entries than its
\* totalChunks.
C11_FilledAtMostTotal ==
    \A s \in Live : Filled(uploadSessions, s) <= uploadSessions[s].totalChunks

\* every index 0..totalChunks-1 of the session is filled and there is no other
FullyReceived(s) ==
    /\ Len(uploadSessions[s].chunks.arr) = uploadSessions[s].totalChunks
    /\ Filled(uploadSessions, s) = uploadSessions[s].totalChunks

\* the bytes a session buffers: the lengths of the buffers its chunks array
\* holds, under array indexes and under other keys
BufferedBytes(chunks) ==
    LET F[i \in 0..Len(chunks.arr)] ==
            IF i = 0 THEN 0
            ELSE F[i - 1] + (IF chunks.arr[i] = Undefined THEN 0 ELSE ByteLength(chunks.arr[i]))
    IN  F[Len(chunks.arr)] + (IF chunks.props = Undefined THEN 0 ELSE ByteLength(chunks.props))

\* C26 (as claimed): the bytes buffered for a session never exceed the size
\* the session declared: a chunk that would push the sum of the received
\* chunk sizes over it is rejected, also before totalChunks chunks arrived.
C26_BufferedBytesBounded ==
    \A s \in Live : BufferedBytes(uploadSessions[s].chunks) <= uploadSessions[s].fileSize

\* C27: cancel-upload on a session id that is not in the table (unknown,
\* already cancelled, already completed or already expired) answers 404
\* 'Session not found' and leaves the session table as it was; upload-status
\* never changes the session table.
C27_CancelMissAndStatusReadOnly ==
    [][/\ resp'.op = "cancel-upload" =>
             \A s \in SessionIds(issued) \ Live, u \in Callers :
                 CancelUploadBy(u, s) =>
                     /\ resp' = Response("cancel-upload", 404, s, "Session not found", -1)
                     /\ uploadSessions' = uploadSessions
       /\ resp'.op = "upload-status" =>
             \A s \in SessionIds(issued), u \in Callers :
                 UploadStatusBy(u, s) => uploadSessions' = uploadSessions]_vars

\* a session whose upload has completed was cancelled: 404, nothing buffered
C27_Witness ==
    \E s \in issued :
        /\ resp = Response("cancel-upload", 404, s, "Session not found", -1)
        /\ s \notin Live
        /\ \E c \in cloudinary : c.recordingId = s[2]

\* a caller of another company or another worker than the one that started
\* the session
NotOwner(user, session) ==
    user.company_id # session.companyId \/ user.worker_id # session.workerId

\* C28 (as claimed): a caller whose identity carries another company or
\* another worker than the one that started a session cannot submit a chunk
\* to it, read its status or cancel it: such a request is refused and leaves
\* the session as it was.
C28_SessionsScopedToOwner ==
    [][\A u \in Callers, s \in Live :
          NotOwner(u, uploadSessions[s]) =>
              /\ CancelUploadBy(u, s) => (resp'.status >= 400 /\ uploadSessions' = uploadSessions)
              /\ UploadStatusBy(u, s) => resp'.status >= 400
              /\ \A r \in ChunkRequests :
                    UploadChunkBy(u, s, r.chunkIndex, r.file, r.totalChunks) =>
                        (resp'.status >= 400 /\ UNCHANGED <<uploadSessions, inflight>>)]_vars

C13_NoExpiryMidAssembly ==
    [][\A t \in timers :
         (/\ t.sid \in Live
          /\ \E i \in 1..Len(inflight) : inflight[i].sid = t.sid
          /\ SessionTimeout(t))
         => t.sid \in DOMAIN uploadSessions']_vars

\* C14 (as claimed): after cancel-upload has answered 'Upload cancelled' for a
\* session, the completion in flight for that session does not answer
\* 'Upload completed successfully'.
C14_CancelOrCompleteNotBoth ==
    [][\A s \in issued :
         resp = Response("cancel-upload", 200, s, "Upload cancelled", -1)
         => resp' # Response("upload-chunk", 200, s, "Upload completed successfully", -1)]_vars

\* C15: the steps of the handlers of one session never disturb each other's
\* chunks.  In every step, for every session that stays in the table: an
\* upload-chunk accepted for array index k stores its buffer at k, every other
\* entry is what it was, and the filled count grows by one exactly when k was
\* empty; a step that is no accepted upload-chunk for the session (another
\* handler resuming, a timer, a status request) leaves all its entries alone.
C15_ConcurrentChunksKept ==
    [][\A s \in Live \cap DOMAIN uploadSessions' :
         LET a == uploadSessions[s].chunks.arr
             z == uploadSessions'[s].chunks.arr
             o == ghost[s].order
             n == ghost'[s].order
         IN  IF Len(n) > Len(o) /\ n[Len(n)] >= 0
             THEN LET k == n[Len(n)] IN
                  /\ Len(z) = Max(Len(a), k + 1)
                  /\ z[k + 1] = ghost'[s].last[k] /\ z[k + 1] \in Buffers
                  /\ \A j \in 1..Len(z) : j # k + 1 =>
                        z[j] = IF j <= Len(a) THEN a[j] ELSE Undefined
                  /\ Filled(uploadSessions', s) = Filled(uploadSessions, s) +
                        (IF k + 1 <= Len(a) /\ a[k + 1] # Undefined THEN 0 ELSE 1)
             ELSE z = a]_vars

\* while the handler that took chunk 0 is suspended in its final store write,
\* a second handler stored chunk 1 of the same session: both are in the array
\* and the second was answered a count of 2
C15_Witness ==
    \E s \in Live :
        /\ \E i \in 1..Len(inflight) : inflight[i].sid = s /\ inflight[i].buffer = <<"a">>
        /\ ghost[s].order = <<0, 1>>
        /\ uploadSessions[s].chunks.arr = <<"a", "b">>
        /\ resp = Response("upload-chunk", 200, s, "progress", 2)

\* C16 (as claimed): upload-chunk starts no final store write for a session
\* that has one in flight.
C16_OneFinalWrite ==
    [][Len(inflight') > Len(inflight) =>
         \A i \in 1..Len(inflight) : inflight[i].sid # inflight'[Len(inflight')].sid]_vars

\* the step is an upload-chunk that stored a chunk in session s
Accepted(s) ==
    /\ s \in DOMAIN uploadSessions'
    /\ Len(ghost'[s].order) > Len(ghost[s].order)

\* the step entered the branch of the final assembly: Buffer.concat threw on
\* the array, or the final store write was started
AssemblyTriggered ==
    Len(inflight') > Len(inflight) \/ (resp' # resp /\ resp'.msg = "TypeError")

\* C31 (as claimed): an upload-chunk that stores a chunk triggers the final
\* assembly exactly when the number of filled indices equals the totalChunks
\* the session recorded at start-upload, whatever totalChunks the request
\* itself carries.
C31_AssemblyOnRecordedTotal ==
    [][\A s \in Live : Accepted(s) =>
          (AssemblyTriggered <=> Filled(uploadSessions', s) = uploadSessions[s].totalChunks)]_vars

\* C32 (as claimed): whenever a final store write starts, the chunks array of
\* its session holds a buffer at every index 0..totalChunks-1 and at no other
\* index, and the blob is made of exactly these totalChunks buffers.
C32_AssembledExactly ==
    [][Len(inflight') > Len(inflight) =>
         LET f == inflight'[Len(inflight')]
             N == uploadSessions'[f.sid].totalChunks
             arr == uploadSessions'[f.sid].chunks.arr
         IN  /\ Len(arr) = N
             /\ \A i \in 1..Len(arr) : arr[i] # Undefined
             /\ f.buffer = arr]_vars

\* C33: a session leaves the session table only in a step that is the
\* completion of its final store write (the store has accepted the blob and
\* the caller is answered 'Upload completed successfully'), a cancel-upload for
\* it, or its expiry timer at start + 30 minutes; so no other upload-chunk
\* step, no failed write and no upload-status removes it.
C33_LeavesOnlyByCompleteCancelExpiry ==
    [][\A s \in Live : s \notin DOMAIN uploadSessions' =>
          \/ \E i \in 1..Len(inflight) :
                /\ inflight[i].sid = s
                /\ UploadChunkResume(i, TRUE)
                /\ [companyId |-> uploadSessions[s].companyId,
                    recordingId |-> uploadSessions[s].recordingId,
                    buffer |-> inflight[i].buffer] \in cloudinary'
                /\ resp' = Response("upload-chunk", 200, s, "Upload completed successfully", -1)
          \/ \E u \in Callers : CancelUploadBy(u, s) /\ resp'.status = 200
          \/ \E t \in timers :
                t.sid = s /\ t.due = Deadline(s) /\ now >= t.due /\ SessionTimeout(t)]_vars

\* a session that had stored two chunks left the table when its final store
\* write succeeded, with its expiry timer still pending
C33_Witness ==
    \E s \in issued :
        /\ s \notin Live
        /\ resp = Response("upload-chunk", 200, s, "Upload completed successfully", -1)
        /\ nSubmits = 2
        /\ Cardinality(cloudinary) = 1
        /\ inflight = <<>>
        /\ \E t \in timers : t.sid = s

\* C34 (as claimed): start-upload creates its session under an id that is
\* not in the session table and leaves every session of the table as it was
\* (its buffered chunks, its totalChunks).
C34_StartNeverDisturbs ==
    [][\A u \in Users, r \in RecordingIds, n \in 1..MaxChunks :
          StartUpload(u, r, n) =>
              /\ resp'.sid \notin Live
              /\ \A s \in Live : s \in DOMAIN uploadSessions' /\ uploadSessions'[s] = uploadSessions[s]]_vars

\* ======================================================================
\* strings and numbers
\* ======================================================================
\* A string is modelled as the sequence of its tokens: decimal digits,
\* separators ("/", "_", "-", ",") and words that hold no separator.
DigitChars == <<"0", "1", "2", "3", "4", "5", "6", "7", "8", "9">>
IsDigit(c) == \E d \in 1..10 : DigitChars[d] = c
DigitValue(c) == (CHOOSE d \in 1..10 : DigitChars[d] = c) - 1

\* a JS number: an integer or NaN
Num(v) == [nan |-> FALSE, v |-> v]
NaN == [nan |-> TRUE, v |-> 0]

RECURSIVE ToDigits(_)
\* `${n}` of a non-negative integer
ToDigits(n) ==
    IF n < 10 THEN <<DigitChars[n + 1]>>
    ELSE ToDigits(n \div 10) \o <<DigitChars[(n % 10) + 1]>>

RECURSIVE ParseDigits(_, _)
\* the value of the leading digits of str after the digits already read (acc)
ParseDigits(str, acc) ==
    IF str = <<>> \/ ~IsDigit(Head(str)) THEN acc
    ELSE ParseDigits(Tail(str), 10 * acc + DigitValue(Head(str)))

\* parseInt(str, 10): the leading decimal digits, NaN when there is none
ParseInt(str) ==
    IF str = <<>> \/ ~IsDigit(Head(str)) THEN NaN ELSE Num(ParseDigits(str, 0))

RECURSIVE RemoveFirst(_, _)
\* range.replace(/bytes=/, ""): drops the first occurrence
RemoveFirst(str, tok) ==
    IF str = <<>> THEN <<>>
    ELSE IF Head(str) = tok THEN Tail(str)
    ELSE <<Head(str)>> \o RemoveFirst(Tail(str), tok)

RECURSIVE Split(_, _)
\* str.split(sep): the pieces between the separators, at least one piece
Split(str, sep) ==
    IF \A i \in 1..Len(str) : str[i] # sep THEN <<str>>
    ELSE LET i == CHOOSE k \in 1..Len(str) :
                      str[k] = sep /\ \A j \in 1..(k - 1) : str[j] # sep
         IN  <<SubSeq(str, 1, i - 1)>> \o Split(SubSeq(str, i + 1, Len(str)), sep)

\* ======================================================================
\* upload.js: the multipart routes and the object store behind them
\* ======================================================================
UnitsPerDay == 24 * 2

\* Date.now() when the clock reads 0: 1999-12-31 23:30, the last clock unit
\* of a day, a month and a year (10957 days after 1970-01-01), so that the
\* timestamps of one behaviour fall on both sides of a date change
ClockStart == 10957 * UnitsPerDay - 1
\* Date.now(), in clock units since 1970-01-01 00:00
DateNow == ClockStart + now

\* new Date(timestamp): getFullYear(), getMonth() + 1 and getDate() of the
\* day the timestamp falls in (proleptic Gregorian calendar; the server's
\* time zone is UTC)
CivilDate(timestamp) ==
    LET z   == timestamp \div UnitsPerDay + 719468
        era == z \div 146097
        doe == z - era * 146097
        yoe == (doe - doe \div 1460 + doe \div 36524 - doe \div 146096) \div 365
        doy == doe - (365 * yoe + yoe \div 4 - yoe \div 100)
        mp  == (5 * doy + 2) \div 153
        m   == IF mp < 10 THEN mp + 3 ELSE mp - 9
    IN  [year  |-> yoe + era * 400 + (IF m <= 2 THEN 1 ELSE 0),
         month |-> m,
         day   |-> doy - (153 * mp + 2) \div 5 + 1]

\* String(n).padStart(2, '0')
PadStart2(n) == IF n < 10 THEN <<"0">> \o ToDigits(n) ELSE ToDigits(n)

\* a key whose file name leaves the timestamp out
FileKeyWithoutTimestamp(companyId, barcode, timestamp) ==
    LET date == CivilDate(timestamp) IN
    <<"recordings", "/">> \o companyId \o <<"/">> \o ToDigits(date.year) \o <<"/">>
        \o PadStart2(date.month) \o <<"/">> \o PadStart2(date.day) \o <<"/">>
        \o barcode \o <<".webm">>

\* generateFileKey:
\* `recordings/${companyId}/${year}/${month}/${day}/${barcode}_${timestamp}.webm`
GenerateFileKey(companyId, barcode, timestamp) ==
    LET date == CivilDate(timestamp) IN
    <<"recordings", "/">> \o companyId \o <<"/">> \o ToDigits(date.year) \o <<"/">>
        \o PadStart2(date.month) \o <<"/">> \o PadStart2(date.day) \o <<"/">>
        \o barcode \o <<"_">> \o ToDigits(timestamp) \o <<".webm">>

\* the ETag the store returns for an uploaded part
ETagOf(partNumber) == <<"etag", partNumber>>

\* the PartDescriptors a client may list: {PartNumber, ETag} of each part
PartDescriptors == {[PartNumber |-> n, ETag |-> ETagOf(n)] : n \in 1..MaxPartNumber}

RECURSIVE SeqsUpTo(_, _)
SeqsUpTo(S, n) ==
    IF n = 0 THEN {<<>>}
    ELSE LET shorter == SeqsUpTo(S, n - 1) IN
         shorter \cup {Append(q, x) : q \in {r \in shorter : Len(r) = n - 1}, x \in S}

\* the descriptor of part 1
PartDescriptors1 == [PartNumber |-> 1, ETag |-> ETagOf(1)]

\* req.body.parts: an array of descriptors, or something that is no array
PartsArrays == {[isArray |-> TRUE, items |-> q] : q \in SeqsUpTo(PartDescriptors, MaxParts)}
NoArray == [isArray |-> FALSE, items |-> <<>>]

\* the (key, uploadId) pairs a client may send with both fields present: every
\* pairing of a key and an upload id that init has returned, and a pair with an
\* id the store never gave out
UploadRefs ==
    LET ids == DOMAIN s3Uploads
        keys == {s3Uploads[u].key : u \in ids}
    IN  {[key |-> k, uploadId |-> u] : k \in keys, u \in ids \cup {MaxUploads + 1}}

\* the same pairs with one field missing
PartialRefs ==
    {[key |-> MissingKey, uploadId |-> r.uploadId] : r \in UploadRefs}
    \cup {[key |-> r.key, uploadId |-> MissingId] : r \in UploadRefs}

\* the request bodies of part-url, complete and abort
PartUrlRequests ==
    {[key |-> r.key, uploadId |-> r.uploadId, partNumber |-> n] :
        r \in UploadRefs, n \in -1..MaxPartNumber}
    \cup {[key |-> r.key, uploadId |-> r.uploadId, partNumber |-> 1] : r \in PartialRefs}

\* req.body of complete: every parts list for an upload id the store gave out;
\* the empty list, a list of part 1 and a non-array for any other id
CompleteRequests ==
    {[key |-> r.key, uploadId |-> r.uploadId, parts |-> q] :
        r \in {x \in UploadRefs : x.uploadId \in DOMAIN s3Uploads}, q \in PartsArrays}
    \cup {[key |-> r.key, uploadId |-> r.uploadId, parts |-> q] :
             r \in UploadRefs, q \in {x \in PartsArrays : x.items \in SeqsUpTo({PartDescriptors1}, 1)}}
    \cup {[key |-> r.key, uploadId |-> r.uploadId, parts |-> NoArray] : r \in UploadRefs}
    \cup {[key |-> r.key, uploadId |-> r.uploadId, parts |-> [isArray |-> TRUE, items |-> <<>>]] :
             r \in PartialRefs}
AbortRequests == UploadRefs \cup PartialRefs

\* ------------------------------------------------ the object store
Open      == "open"
Completed == "completed"
Aborted   == "aborted"

\* the upload a (key, uploadId) pair names is in progress at the store
S3Has(uploads, key, uploadId) ==
    /\ uploadId \in DOMAIN uploads
    /\ uploads[uploadId].key = key
    /\ uploads[uploadId].status = Open

\* CompleteMultipartUpload: the error the store answers, "" when it accepts
S3CompleteError(uploads, key, uploadId, parts) ==
    IF ~S3Has(uploads, key, uploadId) THEN "NoSuchUpload"
    ELSE IF parts = <<>> THEN "MalformedXML"
    ELSE IF \E i \in 1..(Len(parts) - 1) : parts[i].PartNumber >= parts[i + 1].PartNumber
         THEN "InvalidPartOrder"
    ELSE IF \E i \in 1..Len(parts) :
               \/ parts[i].PartNumber \notin uploads[uploadId].parts
               \/ parts[i].ETag # ETagOf(parts[i].PartNumber)
         THEN "InvalidPart"
    ELSE ""

\* AbortMultipartUpload: the error the store answers, "" when it accepts
S3AbortError(uploads, key, uploadId) ==
    IF ~S3Has(uploads, key, uploadId) THEN "NoSuchUpload" ELSE ""

\* ------------------------------------------------ key derivations
\* one call of generateFileKey: its arguments and the key it returned
Derivation(companyId, barcode, timestamp, key) ==
    [companyId |-> companyId, barcode |-> barcode, timestamp |-> timestamp, key |-> key]

\* the request bodies of multipart/init
InitRequests == [fileName : {"v.webm", NoString}, barcode : Barcodes \cup {NoBarcode}]

\* ------------------------------------------------ POST /multipart/init
\* !fileName || !barcode
InitMissing(req) == req.fileName = NoString \/ req.barcode = NoBarcode

MultipartInit(worker, req) ==
    /\ Cardinality(DOMAIN s3Uploads) < MaxUploads
    /\ IF InitMissing(req)
       THEN /\ mresp' = MResponse("init", 400, [key |-> MissingKey, uploadId |-> MissingId],
                                  "fileName and barcode are required")
            /\ s3Calls' = <<>>
            /\ UNCHANGED <<s3Uploads, derived>>
       ELSE LET timestamp == DateNow
                key == GenerateFileKey(<<worker.company_id>>, req.barcode, timestamp)
                uploadId == Cardinality(DOMAIN s3Uploads) + 1
            IN
            /\ Len(derived) < MaxDerived
            /\ derived' = Append(derived, Derivation(worker.company_id, req.barcode, timestamp, key))
            /\ s3Calls' = <<[cmd |-> "CreateMultipartUpload", key |-> key,
                             uploadId |-> MissingId, Parts |-> <<>>]>>
            /\ s3Uploads' = MapSet(s3Uploads, uploadId,
                                   [key |-> key, status |-> Open, parts |-> {}])
            /\ mresp' = MResponse("init", 200, [key |-> key, uploadId |-> uploadId], "")
    /\ UNCHANGED <<now, svars, pvars>>

\* ------------------------------------------------ credentials
DEFAULT_EXPIRES == 3600   \* ... || 3600, seconds

\* process.env.PRESIGNED_URL_EXPIRES_SECONDS is not set
Unset == <<"undefined">>
\* the values the environment may configure: none, "0", two hours
EnvExpires == {Unset, ToDigits(0), ToDigits(7200)}

\* parseInt(process.env.PRESIGNED_URL_EXPIRES_SECONDS) || 3600
ExpiresIn(env) ==
    LET n == ParseInt(env) IN
    IF n.nan \/ n.v = 0 THEN DEFAULT_EXPIRES ELSE n.v

\* getSignedUrl(s3Client, command, {expiresIn}): the URL is a credential for
\* one command on one key, valid for expiresIn seconds; it is signed locally
SignedUrl(cmd, key, uploadId, partNumber, expiresIn) ==
    [cmd |-> cmd, key |-> key, uploadId |-> uploadId, partNumber |-> partNumber,
     expiresIn |-> expiresIn]

\* ------------------------------------------------ POST /presigned-url
MAX_SIZE_MB == 100   \* const maxSizeMB = 100
\* req.body.fileSize: absent, at the limit, one byte over it
FileSizes == {0, MAX_SIZE_MB * 1024 * 1024, MAX_SIZE_MB * 1024 * 1024 + 1}
\* the request bodies of presigned-url: a file of each barcode, a file of each
\* size, and bodies with one field missing
PresignRequests ==
    {[fileName |-> "v.webm", barcode |-> b, fileSize |-> 0] : b \in ScannedBarcodes}
    \cup {[fileName |-> "v.webm", barcode |-> b, fileSize |-> n] : b \in Barcodes, n \in FileSizes}
    \cup {[fileName |-> NoString, barcode |-> b, fileSize |-> 0] : b \in Barcodes}
    \cup {[fileName |-> "v.webm", barcode |-> NoBarcode, fileSize |-> n] :
             n \in {0, MAX_SIZE_MB * 1024 * 1024 + 1}}
\* a request with its caller and the configuration it is served under: every
\* request by a worker of c1 under the default expiry, a file of the first
\* barcode by every worker under every configured expiry
PresignInputs ==
    {[worker |-> w, req |-> r, env |-> Unset] : w \in WorkersOf("c1"), r \in PresignRequests}
    \cup {[worker |-> w, req |-> [fileName |-> "v.webm", barcode |-> b, fileSize |-> 0], env |-> e] :
             w \in Workers, b \in Barcodes, e \in EnvExpires}

\* a size check with ten times the limit
TooLargeTenfold(fileSize) ==
    fileSize # 0 /\ fileSize > 10 * MAX_SIZE_MB * 1024 * 1024

\* fileSize && fileSize > maxSizeMB * 1024 * 1024
TooLarge(fileSize) ==
    fileSize # 0 /\ fileSize > MAX_SIZE_MB * 1024 * 1024

\* `https://${bucket}.s3.${region}.amazonaws.com/${key}`
PublicUrl(key) == <<"https://bucket.s3.region", ".amazonaws.com/">> \o key

PresignedUrl(worker, req, env) ==
    /\ s3Calls' = <<>>
    /\ IF InitMissing(req)
       THEN /\ mresp' = MResponse("presigned-url", 400, req, "fileName and barcode are required")
            /\ UNCHANGED derived
       ELSE IF TooLarge(req.fileSize)
       THEN /\ mresp' = MResponse("presigned-url", 400, req, "File too large for single upload")
            /\ UNCHANGED derived
       ELSE LET timestamp == DateNow
                key == GenerateFileKey(<<worker.company_id>>, req.barcode, timestamp)
            IN
            /\ Len(derived) < MaxDerived
            /\ derived' = Append(derived, Derivation(worker.company_id, req.barcode, timestamp, key))
            /\ mresp' = [op |-> "presigned-url", status |-> 200, req |-> req,
                         msg |-> "presignedUrl",
                         presignedUrl |-> SignedUrl("PutObject", key, MissingId, 0, ExpiresIn(env)),
                         publicUrl |-> PublicUrl(key),
                         key |-> key,
                         expiresIn |-> IF env = Unset THEN ToDigits(DEFAULT_EXPIRES) ELSE env]
    /\ UNCHANGED <<now, svars, s3Uploads, pvars>>

\* ------------------------------------------------ POST /multipart/part-url
\* a part-url request with the configuration it is served under: every
\* request under the default expiry, those for part 1 under every configured
\* expiry
PartUrlInputs ==
    {[req |-> r, env |-> Unset] : r \in PartUrlRequests}
    \cup {[req |-> r, env |-> e] : r \in {x \in PartUrlRequests : x.partNumber = 1}, e \in EnvExpires}

\* !key || !uploadId || !partNumber
PartUrlMissing(req) ==
    req.key = MissingKey \/ req.uploadId = MissingId \/ req.partNumber = 0

MultipartPartUrl(req, env) ==
    /\ s3Calls' = <<>>
    /\ IF PartUrlMissing(req)
       THEN mresp' = MResponse("part-url", 400, req, "key, uploadId, and partNumber are required")
       ELSE \* getSignedUrl signs an UploadPart of (key, uploadId, partNumber)
            \* locally: no store call
            mresp' = [op |-> "part-url", status |-> 200, req |-> req, msg |-> "presignedUrl",
                      presignedUrl |-> SignedUrl("UploadPart", req.key, req.uploadId,
                                                 req.partNumber, ExpiresIn(env))]
    /\ UNCHANGED <<now, svars, s3Uploads, derived, pvars>>

\* the credential the last response carries, if it carries one
Credential == IF mresp.op = "part-url" /\ mresp.status = 200 THEN {mresp.req} ELSE {}

\* the client PUTs a part to the store with the credential it was just given;
\* the store takes it for an upload in progress
ClientPutPart(c) ==
    /\ c \in Credential
    /\ S3Has(s3Uploads, c.key, c.uploadId)
    /\ c.partNumber >= 1
    /\ c.partNumber \notin s3Uploads[c.uploadId].parts
    /\ s3Uploads' = [s3Uploads EXCEPT ![c.uploadId].parts = @ \cup {c.partNumber}]
    /\ UNCHANGED <<now, svars, s3Calls, mresp, derived, pvars>>

\* ------------------------------------------------ POST /multipart/complete
\* how often each element occurs in a sequence
SeqToBag(q) == [x \in {q[i] : i \in 1..Len(q)} |-> Cardinality({i \in 1..Len(q) : q[i] = x})]
\* the part numbers of a list never decrease
Ascending(q) == \A i \in 1..(Len(q) - 1) : q[i].PartNumber <= q[i + 1].PartNumber
\* what is kept of a completion request with its response: the upload it
\* names, the parts it lists (as a bag) and whether it lists them in order
CompleteEcho(req) ==
    [key |-> req.key, uploadId |-> req.uploadId, isArray |-> req.parts.isArray,
     parts |-> SeqToBag(req.parts.items), inOrder |-> Ascending(req.parts.items)]

\* the parts as the client sent them
PartsAsSent(parts) == parts

RECURSIVE InsertPart(_, _)
\* p goes before the first entry that compares greater: a.PartNumber - b.PartNumber > 0
InsertPart(sorted, p) ==
    IF sorted = <<>> THEN <<p>>
    ELSE IF Head(sorted).PartNumber - p.PartNumber > 0 THEN <<p>> \o sorted
    ELSE <<Head(sorted)>> \o InsertPart(Tail(sorted), p)

RECURSIVE SortParts(_)
\* parts.sort((a, b) => a.PartNumber - b.PartNumber): a stable sort
SortParts(parts) ==
    IF parts = <<>> THEN <<>>
    ELSE InsertPart(SortParts(SubSeq(parts, 1, Len(parts) - 1)), parts[Len(parts)])

\* a catch block that aborts the upload the store refused to complete
AbortOnReject(uploads, key, uploadId) ==
    IF uploadId \in DOMAIN uploads /\ uploads[uploadId].status = Open
    THEN [uploads EXCEPT ![uploadId].status = Aborted]
    ELSE uploads

\* the catch block of multipart/complete logs and answers 500: the store's
\* uploads after it
CompleteCatch(uploads, key, uploadId) == uploads

\* !key || !uploadId || !parts || !Array.isArray(parts)
CompleteMissing(req) ==
    req.key = MissingKey \/ req.uploadId = MissingId \/ ~req.parts.isArray

MultipartComplete(req) ==
    IF CompleteMissing(req)
    THEN /\ mresp' = MResponse("complete", 400, CompleteEcho(req), "key, uploadId, and parts array are required")
         /\ s3Calls' = <<>>
         /\ UNCHANGED <<now, svars, s3Uploads, derived, pvars>>
    ELSE LET sortedParts == SortParts(req.parts.items)
             error == S3CompleteError(s3Uploads, req.key, req.uploadId, sortedParts)
         IN
         /\ s3Calls' = <<[cmd |-> "CompleteMultipartUpload", key |-> req.key,
                          uploadId |-> req.uploadId, Parts |-> sortedParts]>>
         /\ IF error = ""
            THEN /\ s3Uploads' = [s3Uploads EXCEPT ![req.uploadId].status = Completed]
                 /\ mresp' = MResponse("complete", 200, CompleteEcho(req), "publicUrl")
            ELSE /\ s3Uploads' = CompleteCatch(s3Uploads, req.key, req.uploadId)
                 /\ mresp' = MResponse("complete", 500, CompleteEcho(req), "Failed to complete multipart upload")
         /\ UNCHANGED <<now, svars, derived, pvars>>

\* ------------------------------------------------ POST /multipart/abort
\* an abort that checks only that the key is there
AbortMissingKeyOnly(req) == req.key = MissingKey

\* !key || !uploadId
AbortMissing(req) == req.key = MissingKey \/ req.uploadId = MissingId

MultipartAbort(req) ==
    IF AbortMissing(req)
    THEN /\ mresp' = MResponse("abort", 400, req, "key and uploadId are required")
         /\ s3Calls' = <<>>
         /\ UNCHANGED <<now, svars, s3Uploads, derived, pvars>>
    ELSE LET error == S3AbortError(s3Uploads, req.key, req.uploadId) IN
         /\ s3Calls' = <<[cmd |-> "AbortMultipartUpload", key |-> req.key,
                          uploadId |-> req.uploadId, Parts |-> <<>>]>>
         /\ IF error = ""
            THEN /\ s3Uploads' = [s3Uploads EXCEPT ![req.uploadId].status = Aborted]
                 /\ mresp' = MResponse("abort", 200, req, "Multipart upload aborted successfully")
            ELSE /\ s3Uploads' = s3Uploads
                 /\ mresp' = MResponse("abort", 500, req, "Failed to abort multipart upload")
         /\ UNCHANGED <<now, svars, derived, pvars>>

\* ------------------------------------------------ requests with their caller
\* authenticateWorker sets req.worker from the token; the handlers of
\* part-url, complete and abort do not read it
MultipartPartUrlBy(worker, req, env) == MultipartPartUrl(req, env)
MultipartCompleteBy(worker, req) == MultipartComplete(req)
MultipartAbortBy(worker, req) == MultipartAbort(req)

\* The multipart routes read the clock only for the timestamp in a new key;
\* the requests of one behaviour are served within one clock unit.
\* The uploads of one company, requested by its workers:
NextMultipart ==
    \/ \E w \in WorkersOf("c1"), req \in InitRequests : MultipartInit(w, req)
    \/ \E req \in PartUrlRequests : MultipartPartUrl(req, Unset)
    \/ \E c \in Credential : ClientPutPart(c)
    \/ \E req \in CompleteRequests : MultipartComplete(req)
    \/ \E req \in AbortRequests : MultipartAbort(req)

SpecMultipart == Init /\ [][NextMultipart]_vars

\* The same routes with the workers of two companies as callers.
NextTenants ==
    \/ \E w \in Workers, req \in InitRequests : MultipartInit(w, req)
    \/ \E w \in Workers, req \in PartUrlRequests : MultipartPartUrlBy(w, req, Unset)
    \/ \E c \in Credential : ClientPutPart(c)
    \/ \E w \in Workers, req \in CompleteRequests : MultipartCompleteBy(w, req)
    \/ \E w \in Workers, req \in AbortRequests : MultipartAbortBy(w, req)

SpecTenants == Init /\ [][NextTenants]_vars

\* The routes that derive keys and issue credentials, with the clock and the
\* configured expiry of the environment.
NextIssue ==
    \/ Tick
    \/ \E i \in PresignInputs : PresignedUrl(i.worker, i.req, i.env)
    \/ \E w \in Workers, req \in InitRequests : MultipartInit(w, req)
    \/ \E i \in PartUrlInputs : MultipartPartUrl(i.req, i.env)

SpecIssue == Init /\ [][NextIssue]_vars

\* presigned-url for a file of every barcode, with the clock.
NextPublicUrl ==
    \/ Tick
    \/ \E w \in WorkersOf("c1"), b \in ScannedBarcodes \cup HostBarcodes :
          PresignedUrl(w, [fileName |-> "v.webm", barcode |-> b, fileSize |-> 0], Unset)

SpecPublicUrl == Init /\ [][NextPublicUrl]_vars

\* ------------------------------------------------ properties of the multipart routes
CompleteCalls == {i \in 1..Len(s3Calls) : s3Calls[i].cmd = "CompleteMultipartUpload"}

\* the upload a request names, when init created it under that key
Names(req, u) == u \in DOMAIN s3Uploads /\ u = req.uploadId /\ s3Uploads[u].key = req.key

\* C5: the manifest multipart/complete submits to the store is in ascending
\* part number whatever the order of the parts list the client supplied, and
\* it holds exactly the supplied parts (each as often as it was supplied).
C5_ManifestSorted ==
    \A i \in CompleteCalls :
        /\ mresp.op = "complete"
        /\ \A j \in 1..(Len(s3Calls[i].Parts) - 1) :
              s3Calls[i].Parts[j].PartNumber <= s3Calls[i].Parts[j + 1].PartNumber
        /\ SeqToBag(s3Calls[i].Parts) = mresp.req.parts

\* a list supplied out of order (part 2 before part 1) was submitted as 1, 2
\* and the store completed the upload
C5_Witness ==
    /\ mresp.op = "complete" /\ mresp.status = 200 /\ ~mresp.req.inOrder
    /\ Len(s3Calls) = 1
    /\ s3Calls[1].cmd = "CompleteMultipartUpload"
    /\ s3Calls[1].Parts = <<[PartNumber |-> 1, ETag |-> ETagOf(1)],
                            [PartNumber |-> 2, ETag |-> ETagOf(2)]>>

\* C6: a multipart/complete request whose parts list is empty is answered with
\* a validation error (400) and sends no command to the store.
C6_EmptyPartsRejected ==
    (mresp.op = "complete" /\ mresp.req.isArray /\ DOMAIN mresp.req.parts = {})
        => (mresp.status = 400 /\ s3Calls = <<>>)

\* C7: multipart/abort on an upload that is already aborted or already
\* completed is answered with success.
C7_AbortIdempotent ==
    (mresp.op = "abort" /\ \E u \in DOMAIN s3Uploads :
          Names(mresp.req, u) /\ s3Uploads[u].status \in {Aborted, Completed})
        => mresp.status = 200

\* C8: once an upload is completed or aborted, no request for its
\* (key, uploadId) is given a part credential or changes the store.
C8_TerminalIsFinal ==
    [][\A u \in DOMAIN s3Uploads : s3Uploads[u].status \in {Completed, Aborted} =>
          /\ s3Uploads'[u] = s3Uploads[u]
          /\ \A c \in Credential' : ~(c.uploadId = u /\ c.key = s3Uploads[u].key)]_vars

\* C9: a multipart/complete request the store rejects is answered with an
\* error after exactly one command to the store, a CompleteMultipartUpload and
\* no abort; the store's uploads are as before it, and an upload that was open
\* and has parts can still be completed by a later request listing them.
C9_RejectedCompleteLeavesOpen ==
    [][(mresp' # mresp /\ mresp'.op = "complete" /\ mresp'.status >= 500) =>
          /\ Len(s3Calls') = 1
          /\ s3Calls'[1].cmd = "CompleteMultipartUpload"
          /\ s3Uploads' = s3Uploads
          /\ \A u \in DOMAIN s3Uploads :
                (Names(mresp'.req, u) /\ s3Uploads[u].status = Open /\ s3Uploads[u].parts # {}) =>
                    /\ s3Uploads'[u].status = Open
                    /\ \E q \in PartsArrays :
                          S3CompleteError(s3Uploads', s3Uploads'[u].key, u, SortParts(q.items)) = ""]_vars

\* the store rejected the completion of an open upload that has both parts
\* (the list named part 1 twice); the upload is still open
C9_Witness ==
    /\ mresp.op = "complete" /\ mresp.status = 500
    /\ Len(s3Calls) = 1
    /\ s3Calls[1].Parts = <<[PartNumber |-> 1, ETag |-> ETagOf(1)],
                            [PartNumber |-> 1, ETag |-> ETagOf(1)]>>
    /\ \E u \in DOMAIN s3Uploads :
          Names(mresp.req, u) /\ s3Uploads[u].status = Open /\ s3Uploads[u].parts = {1, 2}

\* ======================================================================
\* video.js, first module: GET /stream/:recordingId (proxy mode)
\* ======================================================================
\* arithmetic of JS numbers
Sub(a, b) == IF a.nan \/ b.nan THEN NaN ELSE Num(a.v - b.v)
Add(a, b) == IF a.nan \/ b.nan THEN NaN ELSE Num(a.v + b.v)

\* (end - start) as the size of a range
ChunkSizeExclusive(start, end) == Sub(end, start)
\* const chunksize = (end - start) + 1
ChunkSize(start, end) == Add(Sub(end, start), Num(1))

\* the request carries no Range header
NoHeader == <<"undefined">>

\* the Range headers a client may send: the unit or none, a first position or
\* none, a dash or none, a last position or none, and a two-range header.
\* Positions run past the end of every object; one has two digits.
Positions == 0..(MaxSize + 1) \cup {10 + MaxSize}
PositionStrings == {ToDigits(n) : n \in Positions} \cup {<<>>}
RangeHeaders ==
    {u \o a \o d \o b : u \in {<<"bytes=">>, <<>>}, a \in PositionStrings,
                          d \in {<<"-">>}, b \in PositionStrings}
    \cup {u \o a : u \in {<<"bytes=">>, <<>>}, a \in PositionStrings}
    \cup {<<"bytes=", "0", "-", "0", ",", "1", "-", "1">>}

\* ------------------------------------------------ the recording registry
Companies == {"c1", "c2"}
\* cloud_url of a recording whose upload has not been recorded yet: null
NoUrl == <<>>
\* .from('recordings'): the recording r1 of company c1, stored under one key,
\* and the recording r2 of company c1, which has no cloud_url yet
Recordings ==
    {[id |-> "r1", company_id |-> "c1",
      cloud_url |-> <<"https://bucket.s3.region", ".amazonaws.com/", "k1">>],
     [id |-> "r2", company_id |-> "c1", cloud_url |-> NoUrl]}
NoRecording == [id |-> ""]
\* a lookup that does not filter by the caller's company
LookupAnyTenant(recordingId, company_id) ==
    IF \E r \in Recordings : r.id = recordingId
    THEN CHOOSE r \in Recordings : r.id = recordingId
    ELSE NoRecording

\* .select('*').eq('id', recordingId).eq('company_id', company_id).single()
Lookup(recordingId, company_id) ==
    IF \E r \in Recordings : r.id = recordingId /\ r.company_id = company_id
    THEN CHOOSE r \in Recordings : r.id = recordingId /\ r.company_id = company_id
    ELSE NoRecording
\* recording.cloud_url.split('.amazonaws.com/')[1]
S3KeyOf(cloud_url) == Split(cloud_url, ".amazonaws.com/")[2]

\* ------------------------------------------------ the object store
\* the bytes of an object are its positions first..last; no bytes: None
NoBody == [first |-> 0, last |-> -1]
BodyLength(body) == body.last - body.first + 1

\* the Range value is no byte-range: a position is NaN, or the last position
\* is before the first
NoByteRange(start, end) == start.nan \/ end.nan \/ start.v > end.v

\* GetObject with Range `bytes=${start}-${end}`: "InvalidRange" when the first
\* position is at or past the end of the object.  A value that is no
\* byte-range is ignored and the whole object is sent, or is rejected when the
\* store is strict about it.  A last position past the end stands for the end.
S3RangeError(size, start, end, strict) ==
    IF NoByteRange(start, end)
    THEN IF strict THEN "InvalidArgument" ELSE ""
    ELSE IF start.v >= size THEN "InvalidRange" ELSE ""
S3RangeBody(size, start, end) ==
    IF NoByteRange(start, end)
    THEN [first |-> 0, last |-> size - 1]
    ELSE [first |-> start.v, last |-> IF end.v < size THEN end.v ELSE size - 1]

\* ------------------------------------------------ GET /stream/:recordingId
SRequest(recordingId, company_id, range) ==
    [recordingId |-> recordingId, company_id |-> company_id, range |-> range]
SResponse(req, calls, status, headers, body, size) ==
    [op |-> "stream", req |-> req, calls |-> calls, status |-> status,
     headers |-> headers, body |-> body, size |-> size]
\* res.status(n).json({error}): no streaming headers
JsonHeaders(error) == [error |-> error]

\* the headers of the 200 response without Accept-Ranges
FullHeadersNoAcceptRanges(videoSize) ==
    [ContentLength |-> Num(videoSize), ContentType |-> "video/webm"]
\* res.writeHead(200, {...})
FullHeaders(videoSize) ==
    [ContentLength |-> Num(videoSize), ContentType |-> "video/webm", AcceptRanges |-> "bytes"]
\* res.writeHead(206, {...})
PartialHeaders(start, end, videoSize, chunksize) ==
    [ContentRange |-> [start |-> start, end |-> end, size |-> videoSize],
     AcceptRanges |-> "bytes", ContentLength |-> chunksize, ContentType |-> "video/webm"]

StreamVideo(recordingId, company_id, range) ==
    LET req == SRequest(recordingId, company_id, range)
        recording == Lookup(recordingId, company_id)
    IN
    /\ IF recording = NoRecording
       THEN sresp' = SResponse(req, <<>>, 404, JsonHeaders("Recording not found"), NoBody, -1)
       ELSE IF recording.cloud_url = NoUrl
       THEN \* recording.cloud_url.split throws a TypeError: the catch answers
            sresp' = SResponse(req, <<>>, 500, JsonHeaders("Failed to stream video"), NoBody, -1)
       ELSE LET s3Key == S3KeyOf(recording.cloud_url)
                head == [cmd |-> "HeadObject", Key |-> s3Key]
            IN
            IF s3Object = NoObject
            THEN \* s3Client.send(headCommand) rejects
                 sresp' = SResponse(req, <<head>>, 500, JsonHeaders("Failed to stream video"), NoBody, -1)
            ELSE LET videoSize == s3Object.size IN
                 IF range # NoHeader /\ range # <<>>
                 THEN LET parts == Split(RemoveFirst(range, "bytes="), "-")
                          start == ParseInt(parts[1])
                          end == IF Len(parts) >= 2 /\ parts[2] # <<>>
                                 THEN ParseInt(parts[2]) ELSE Num(videoSize - 1)
                          chunksize == ChunkSize(start, end)
                          get == [cmd |-> "GetObject", Key |-> s3Key,
                                  Range |-> [start |-> start, end |-> end]]
                      IN
                      \E strict \in BOOLEAN :
                      IF S3RangeError(videoSize, start, end, strict) # ""
                      THEN sresp' = SResponse(req, <<head, get>>, 500,
                                              JsonHeaders("Failed to stream video"), NoBody, videoSize)
                      ELSE sresp' = SResponse(req, <<head, get>>, 206,
                                              PartialHeaders(start, end, videoSize, chunksize),
                                              S3RangeBody(videoSize, start, end), videoSize)
                 ELSE LET get == [cmd |-> "GetObject", Key |-> s3Key] IN
                      sresp' = SResponse(req, <<head, get>>, 200, FullHeaders(videoSize),
                                         [first |-> 0, last |-> videoSize - 1], videoSize)
    /\ UNCHANGED <<now, svars, mvars, s3Object>>

\* ------------------------------------------------ GET /url/:recordingId
URL_EXPIRES == 3600   \* expiresIn: 3600, seconds

\* the response of the redirect route, with the request it answers and the
\* store and signing operations it performed
UResponse(req, calls, status, headers) ==
    [op |-> "url", req |-> req, calls |-> calls, status |-> status,
     headers |-> headers, body |-> NoBody, size |-> -1]

VideoUrl(recordingId, company_id) ==
    LET req == SRequest(recordingId, company_id, NoHeader)
        recording == Lookup(recordingId, company_id)
    IN
    /\ IF recording = NoRecording
       THEN sresp' = UResponse(req, <<>>, 404, JsonHeaders("Recording not found"))
       ELSE IF recording.cloud_url = NoUrl
       THEN sresp' = UResponse(req, <<>>, 404, JsonHeaders("Video file not available"))
       ELSE LET s3Key == S3KeyOf(recording.cloud_url)
                \* getSignedUrl signs a GetObject of the key locally
                sign == [cmd |-> "getSignedUrl", Key |-> s3Key, expiresIn |-> URL_EXPIRES]
            IN  sresp' = UResponse(req, <<sign>>, 200,
                                   [url |-> [Key |-> s3Key, expiresIn |-> URL_EXPIRES],
                                    expiresIn |-> URL_EXPIRES])
    /\ UNCHANGED <<now, svars, mvars, s3Object>>

\* an upload stores the object of the recording
StoreObject(size) ==
    /\ s3Object = NoObject
    /\ s3Object' = [size |-> size]
    /\ UNCHANGED <<now, svars, mvars, sresp>>

\* the recording ids a client may ask for: the registered ones and an unknown one
RequestedIds == {"r1", "r2", "r0"}

NextStream ==
    \/ \E size \in 1..MaxSize : StoreObject(size)
    \/ \E range \in RangeHeaders \cup {NoHeader} : StreamVideo("r1", "c1", range)
    \/ \E recordingId \in RequestedIds, company_id \in Companies, range \in {NoHeader, <<"bytes=", "0", "-">>} :
          StreamVideo(recordingId, company_id, range)
    \/ \E recordingId \in RequestedIds, company_id \in Companies : VideoUrl(recordingId, company_id)

SpecStream == Init /\ [][NextStream]_vars

\* ------------------------------------------------ properties of the proxy
\* the last request was a proxy request that found its recording and an
\* object of at least one byte
Probed == sresp.op = "stream" /\ sresp.size >= 1

\* the header bytes=S-E, and bytes=S-
ClosedRange(S, E) == <<"bytes=">> \o ToDigits(S) \o <<"-">> \o ToDigits(E)
OpenRange(S) == <<"bytes=">> \o ToDigits(S) \o <<"-">>

\* C17: a request with Range bytes=S-E, or bytes=S- (then E = size - 1), with
\* 0 <= S <= E < size is answered 206 with Content-Range bytes S-E/size and
\* Content-Length E - S + 1, size being the size HeadObject reported, and
\* carries the bytes S..E.
C17_RangeYieldsPartial ==
    Probed =>
        \A S \in 0..(sresp.size - 1), E \in 0..(sresp.size - 1) :
            (/\ S <= E
             /\ \/ sresp.req.range = ClosedRange(S, E)
                \/ E = sresp.size - 1 /\ sresp.req.range = OpenRange(S))
            => /\ sresp.status = 206
               /\ sresp.headers.ContentRange = [start |-> Num(S), end |-> Num(E), size |-> sresp.size]
               /\ sresp.headers.ContentLength = Num(E - S + 1)
               /\ sresp.body = [first |-> S, last |-> E]

\* bytes=1-2 on an object of 3 bytes: 206, bytes 1-2/3, 2 bytes
C17_Witness ==
    /\ Probed /\ sresp.size = 3
    /\ sresp.req.range = <<"bytes=", "1", "-", "2">>
    /\ sresp.status = 206
    /\ sresp.headers.ContentLength = Num(2)

\* C18 (as claimed): a request with Range bytes=S- whose S is at or past the
\* size of the object is answered range-not-satisfiable (416).
C18_StartBeyondSize ==
    (Probed /\ \E S \in Positions : S >= sresp.size /\ sresp.req.range = OpenRange(S))
        => sresp.status = 416

\* C19 (as claimed): every 206 response carries a Content-Range with
\* 0 <= start <= end < size, and its Content-Range and Content-Length are the
\* positions and the number of the bytes the store returned.
C19_PartialIsWellFormed ==
    (sresp.op = "stream" /\ sresp.status = 206) =>
        LET cr == sresp.headers.ContentRange IN
        /\ ~cr.start.nan /\ ~cr.end.nan
        /\ 0 <= cr.start.v /\ cr.start.v <= cr.end.v /\ cr.end.v < cr.size
        /\ sresp.body = [first |-> cr.start.v, last |-> cr.end.v]
        /\ sresp.headers.ContentLength = Num(BodyLength(sresp.body))

\* C20: a request without a Range header is answered 200 with the whole
\* object, Accept-Ranges: bytes and a Content-Length that is the size
\* HeadObject reported.
C20_NoRangeYieldsFull ==
    (Probed /\ sresp.req.range = NoHeader) =>
        /\ sresp.status = 200
        /\ "AcceptRanges" \in DOMAIN sresp.headers
        /\ sresp.headers.AcceptRanges = "bytes"
        /\ sresp.headers.ContentLength = Num(sresp.size)
        /\ sresp.body = [first |-> 0, last |-> sresp.size - 1]

\* no Range header on an object of 3 bytes: 200 with all 3 bytes
C20_Witness ==
    /\ Probed /\ sresp.size = 3
    /\ sresp.req.range = NoHeader
    /\ sresp.status = 200
    /\ sresp.body = [first |-> 0, last |-> 2]

\* the recording a playback request names is not registered for the caller's
\* company: the id is unknown or the recording belongs to another company
LookupMiss(req) ==
    ~\E r \in Recordings : r.id = req.recordingId /\ r.company_id = req.company_id

\* C21: in redirect mode (/url) and in proxy mode (/stream), a request whose
\* recording id is unknown or belongs to another company is answered 404
\* 'Recording not found' and performs no HeadObject, no GetObject and no
\* signing; every request that performs one has found its recording.
C21_LookupBeforeStore ==
    sresp.op \in {"url", "stream"} =>
        /\ LookupMiss(sresp.req) =>
              /\ sresp.status = 404
              /\ sresp.headers = JsonHeaders("Recording not found")
              /\ sresp.calls = <<>>
        /\ sresp.calls # <<>> => ~LookupMiss(sresp.req)

\* company c2 asked for the URL of r1, a recording of c1 whose object is
\* stored: 404 and nothing signed
C21_Witness ==
    /\ sresp.op = "url" /\ sresp.req.recordingId = "r1" /\ sresp.req.company_id = "c2"
    /\ s3Object # NoObject
    /\ sresp.status = 404 /\ sresp.calls = <<>>

\* the recording a playback request names is registered for the caller's
\* company and has no cloud_url
NotStored(req) ==
    \E r \in Recordings :
        r.id = req.recordingId /\ r.company_id = req.company_id /\ r.cloud_url = NoUrl

\* C36 (as claimed): in redirect mode (/url) and in proxy mode (/stream), a
\* request for a registered recording that has no cloud_url is answered 404
\* 'Video file not available' and performs no store or signing operation.
C36_NoUrlYieldsNotFound ==
    (sresp.op \in {"url", "stream"} /\ NotStored(sresp.req)) =>
        /\ sresp.status = 404
        /\ sresp.headers = JsonHeaders("Video file not available")
        /\ sresp.calls = <<>>

\* ------------------------------------------------ properties of key derivation
\* the arguments of a derivation
Inputs(d) == <<d.companyId, d.barcode, d.timestamp>>

\* C22: generateFileKey is deterministic and injective: any two derivations
\* with the same (company, barcode, timestamp) gave the same key, and any two
\* with different arguments gave different keys.
C22_KeyInjective ==
    \A i \in 1..Len(derived), j \in 1..Len(derived) :
        /\ Inputs(derived[i]) = Inputs(derived[j]) => derived[i].key = derived[j].key
        /\ derived[i].key = derived[j].key => Inputs(derived[i]) = Inputs(derived[j])

\* two derivations for one company and one barcode on either side of a date
\* change gave two keys, in 1999/12/31 and 2000/01/01
C22_Witness ==
    /\ Len(derived) = 2
    /\ derived[1].companyId = derived[2].companyId
    /\ derived[1].barcode = <<"b1">> /\ derived[2].barcode = <<"b1">>
    /\ derived[1].key = <<"recordings", "/", "c1", "/", "1", "9", "9", "9", "/", "1", "2", "/", "3", "1",
                          "/", "b1", "_", "5", "2", "5", "9", "3", "5", ".webm">>
    /\ derived[2].key = <<"recordings", "/", "c1", "/", "2", "0", "0", "0", "/", "0", "1", "/", "0", "1",
                          "/", "b1", "_", "5", "2", "5", "9", "3", "6", ".webm">>

\* C35 (as claimed): the public URL presigned-url returns and the key
\* extraction of playback form a round trip: for every derived key, the text
\* playback takes from the public URL of the key is that key.
C35_PublicUrlRoundTrip ==
    /\ \A i \in 1..Len(derived) : S3KeyOf(PublicUrl(derived[i].key)) = derived[i].key
    /\ (mresp.op = "presigned-url" /\ mresp.status = 200) => S3KeyOf(mresp.publicUrl) = mresp.key

\* C23 (as claimed): no two key derivations by presigned-url or
\* multipart/init return the same object key.
C23_KeysNeverReused ==
    \A i \in 1..Len(derived), j \in 1..Len(derived) :
        i # j => derived[i].key # derived[j].key

\* ------------------------------------------------ properties of part-url
\* C24 (as claimed): part-url signs a credential only for a part number that
\* is a positive integer; a request with any other part number is answered
\* with a validation error (400) and no credential is signed.
C24_PartNumberPositive ==
    (mresp.op = "part-url" /\ mresp.req.partNumber < 1) =>
        (mresp.status = 400 /\ Credential = {})

\* ------------------------------------------------ properties of credentials
\* the URL the last response of presigned-url or part-url carries, if any
IssuedUrls ==
    IF mresp.op \in {"presigned-url", "part-url"} /\ mresp.status = 200
    THEN {mresp.presignedUrl} ELSE {}

\* C25 (as claimed): every credential issued has a TTL no greater than a
\* fixed maximum, here the one TTL the code names (3600 s); a configured TTL
\* above it is rejected, not used for signing.
C25_TtlBounded ==
    \A url \in IssuedUrls : url.expiresIn <= DEFAULT_EXPIRES

\* C37: presigned-url answers every request that declares a fileSize above
\* 100 * 1024 * 1024 with 400, derives no key for it and signs nothing; when
\* the request has its fileName and barcode (the check that comes first), the
\* error is the one that points to multipart upload.
C37_OversizeRejected ==
    [][mresp'.op = "presigned-url" =>
          \A i \in PresignInputs :
              (/\ i.req.fileSize > MAX_SIZE_MB * 1024 * 1024
               /\ PresignedUrl(i.worker, i.req, i.env)) =>
                  /\ mresp'.status = 400
                  /\ derived' = derived
                  /\ IssuedUrls' = {}
                  /\ s3Calls' = <<>>
                  /\ ~InitMissing(i.req) => mresp'.msg = "File too large for single upload"]_vars

\* after a key was derived for one file, a request for a file of one byte
\* more than the limit was answered 400 with the pointer to multipart upload
C37_Witness ==
    /\ mresp.op = "presigned-url" /\ mresp.status = 400
    /\ mresp.req.fileSize = MAX_SIZE_MB * 1024 * 1024 + 1
    /\ mresp.msg = "File too large for single upload"
    /\ Len(derived) = 1

\* ------------------------------------------------ properties of tenant scoping
\* the key was derived for another company than the worker's
KeyOfOther(worker, key) ==
    \E i \in 1..Len(derived) :
        derived[i].key = key /\ derived[i].companyId # worker.company_id

\* C29 (as claimed): a worker cannot obtain a part credential for, complete
\* or abort an upload whose key was derived for another company: such a
\* request is refused, sends nothing to the store and changes no upload.
C29_MultipartScopedToTenant ==
    [][\A w \in Workers :
          /\ \A req \in PartUrlRequests :
                (KeyOfOther(w, req.key) /\ MultipartPartUrlBy(w, req, Unset)) =>
                    (mresp'.status >= 400 /\ Credential' = {})
          /\ \A req \in CompleteRequests :
                (KeyOfOther(w, req.key) /\ MultipartCompleteBy(w, req)) =>
                    (mresp'.status >= 400 /\ s3Calls' = <<>> /\ s3Uploads' = s3Uploads)
          /\ \A req \in AbortRequests :
                (KeyOfOther(w, req.key) /\ MultipartAbortBy(w, req)) =>
                    (mresp'.status >= 400 /\ s3Calls' = <<>> /\ s3Uploads' = s3Uploads)]_vars

\* ------------------------------------------------ properties of validation
\* C30: a multipart request with a required field missing (init: fileName or
\* barcode; part-url: key, uploadId or partNumber; complete: key, uploadId or
\* a parts array; abort: key or uploadId) is answered 400 at once: it sends no
\* command to the store, changes no upload, derives no key and signs nothing.
\* (The responses of part-url, complete and abort carry the fields of their
\* request; the response of init does not, so its requests are enumerated.)
C30_MissingFieldRejected ==
    [][mresp' # mresp =>
          /\ mresp'.op = "init" =>
                \A w \in Workers, req \in InitRequests :
                    ((req.fileName = NoString \/ req.barcode = NoBarcode) /\ MultipartInit(w, req)) =>
                        /\ mresp'.status = 400 /\ s3Calls' = <<>>
                        /\ UNCHANGED <<s3Uploads, derived>>
          /\ (/\ mresp'.op = "part-url"
              /\ \/ mresp'.req.key = MissingKey \/ mresp'.req.uploadId = MissingId
                 \/ mresp'.req.partNumber = 0) =>
                /\ mresp'.status = 400 /\ s3Calls' = <<>> /\ Credential' = {}
                /\ UNCHANGED <<s3Uploads, derived>>
          /\ (/\ mresp'.op = "complete"
              /\ \/ mresp'.req.key = MissingKey \/ mresp'.req.uploadId = MissingId
                 \/ ~mresp'.req.isArray) =>
                /\ mresp'.status = 400 /\ s3Calls' = <<>>
                /\ UNCHANGED <<s3Uploads, derived>>
          /\ (/\ mresp'.op = "abort"
              /\ \/ mresp'.req.key = MissingKey \/ mresp'.req.uploadId = MissingId) =>
                /\ mresp'.status = 400 /\ s3Calls' = <<>>
                /\ UNCHANGED <<s3Uploads, derived>>]_vars

\* an abort that named the key of an open upload but no upload id was
\* answered 400; nothing was sent to the store and the upload is still open
C30_Witness ==
    /\ mresp.op = "abort" /\ mresp.status = 400
    /\ mresp.req.uploadId = MissingId /\ mresp.req.key # MissingKey
    /\ s3Calls = <<>>
    /\ \E u \in DOMAIN s3Uploads : s3Uploads[u].key = mresp.req.key /\ s3Uploads[u].status = Open
=============================================================================
